---- MODULE Spec2Model ----
(***************************************************************************)
(* The HTML renderer of mdBook (src/html/mod.rs, src/html/config.rs):      *)
(* HtmlRenderer::render and the functions it calls, as a state machine.    *)
(* One render goes through the statements of render() in order; every      *)
(* statement that can return or unwind is an action of its own.            *)
(***************************************************************************)
EXTENDS Integers, Sequences, FiniteSets, TLC

VARIABLES
    pc,           \* the statement of render() control is at
    book,         \* ctx.book: the sequence of top-level BookItems
    settings,     \* the "output.html" table of ctx.config, as it was written
    book_title,   \* ctx.config.book.title, an Option
    theme,        \* the bytes Theme::new read for index and header
    cfg,          \* the HtmlConfig render() works with
    global_ctx,   \* the JsonObject construct_global_context returned
    hbs,          \* the Handlebars engine load_handlebars_engine returned
    idx,          \* position of render_chapters' for loop in book.iter()
    chapter_ctx,  \* the last chapter_ctx render_chapter built
    rendered,     \* names of the chapters render_chapter was called for
    files,        \* regular files under the destination
    dirs,         \* directories under the destination
    writes,       \* the File::create calls made, in order
    error         \* the Err render() returned

vars == <<pc, book, settings, book_title, theme, cfg, global_ctx, hbs, idx,
          chapter_ctx, rendered, files, dirs, writes, error>>

----------------------------------------------------------------------------
(* Bounds of the model. *)
MaxTop == 3        \* top-level BookItems of a book
MaxSub == 1        \* sub_items of a chapter
MaxKeys == 2       \* colliding keys of a hand-made global context

Names == {"a", "b", "c"}

----------------------------------------------------------------------------
(* Option<T>: None is the empty sequence, Some(x) the one-element one. *)
None == <<>>
Some(x) == <<x>>
IsSome(o) == o # <<>>
Unwrap(o) == o[1]

(* serde_json::Value. *)
JNull == [t |-> "null"]
JStr(s) == [t |-> "str", s |-> s]
JBool(b) == [t |-> "bool", b |-> b]
JArr(a) == [t |-> "arr", a |-> a]
JObj(o) == [t |-> "obj", o |-> o]
JOptStr(o) == IF IsSome(o) THEN JStr(Unwrap(o)) ELSE JNull

(* Map::extend: every entry of other is inserted, replacing the entry the   *)
(* map already holds under the same key.                                    *)
Extend(map, other) ==
    [k \in DOMAIN map \cup DOMAIN other |->
        IF k \in DOMAIN other THEN other[k] ELSE map[k]]

----------------------------------------------------------------------------
(* Paths are sequences of components. *)
RECURSIVE PathString(_)
PathString(p) ==
    IF p = <<>> THEN ""
    ELSE IF Len(p) = 1 THEN p[1]
    ELSE p[1] \o "/" \o PathString(Tail(p))

Join(base, p) == base \o p
Parent(p) == IF p = <<>> THEN None ELSE Some(SubSeq(p, 1, Len(p) - 1))
Ancestors(p) == {SubSeq(p, 1, n) : n \in 0..Len(p)}

RECURSIVE path_to_root(_)
path_to_root(p) ==
    IF Len(p) <= 1 THEN "" ELSE "../" \o path_to_root(Tail(p))

Destination == <<"out">>

----------------------------------------------------------------------------
(* The book. *)
Separator == [kind |-> "Separator"]

RECURSIVE SectionString(_)
SectionString(number) ==
    IF number = <<>> THEN ""
    ELSE ToString(Head(number)) \o "." \o SectionString(Tail(number))

NumberOf(n, dir) ==
    IF n = "c" THEN None
    ELSE IF dir = <<>> THEN Some(<<1>>) ELSE Some(<<1, 1>>)

Chapter(n, dir, subs) ==
    [kind |-> "Chapter", name |-> n, content |-> "# " \o n,
     path |-> dir \o <<n \o ".md">>, number |-> NumberOf(n, dir),
     sub_items |-> subs]

IsChapter(item) == item.kind = "Chapter"

RECURSIVE SubItemsOver(_, _, _)
SubItemsOver(names, dir, k) ==
    {<<>>} \cup
    (IF k = 0 THEN {}
     ELSE UNION {{<<Separator>> \o r : r \in SubItemsOver(names, dir, k - 1)}}
          \cup UNION {{<<Chapter(n, dir, <<>>)>> \o r :
                         r \in SubItemsOver(names \ {n}, dir, k - 1)} : n \in names})

RECURSIVE NamesIn(_)
NamesIn(items) ==
    IF items = <<>> THEN {}
    ELSE (IF IsChapter(Head(items))
          THEN {Head(items).name} \cup NamesIn(Head(items).sub_items)
          ELSE {}) \cup NamesIn(Tail(items))

ItemsOver(names) ==
    {Separator} \cup
    UNION {{Chapter(n, <<>>, subs) : subs \in SubItemsOver(names \ {n}, <<n>>, MaxSub)}
           : n \in names}

RECURSIVE BooksOver(_, _)
BooksOver(names, k) ==
    {<<>>} \cup
    (IF k = 0 THEN {}
     ELSE UNION {{<<item>> \o r : r \in BooksOver(names \ NamesIn(<<item>>), k - 1)}
                 : item \in ItemsOver(names)})

Books == BooksOver(Names, MaxTop)

(* Book::iter.  The iterator keeps a queue of items; next() pops the front *)
(* item and, when it is a chapter, pushes its sub_items to the front.      *)
RECURSIVE BookItems(_)
BookItems(queue) ==
    IF queue = <<>> THEN <<>>
    ELSE LET item == Head(queue)
         IN <<item>> \o BookItems(IF IsChapter(item)
                                  THEN item.sub_items \o Tail(queue)
                                  ELSE Tail(queue))

iter(b) == BookItems(b)

----------------------------------------------------------------------------
(* Result<T>, and the unwinding of unimplemented!(). *)
Ok(v) == [kind |-> "Ok", val |-> v]
Err(e) == [kind |-> "Err", err |-> e]
Panic(m) == [kind |-> "Panic", msg |-> m]
chain_err(r, msg) == IF r.kind = "Err" THEN Err(<<msg>> \o r.err) ELSE r

----------------------------------------------------------------------------
(* src/html/config.rs *)
PlaypenDefault == [editor |-> <<"ace">>, editable |-> FALSE]

HtmlConfigDefault ==
    [theme |-> None, curly_quotes |-> FALSE, mathjax_support |-> FALSE,
     google_analytics |-> None, additional_css |-> <<>>, additional_js |-> <<>>,
     playpen |-> PlaypenDefault, livereload_url |-> None,
     no_section_label |-> FALSE]

(* What the book's configuration file may say under output.html: the table *)
(* may be absent; a key of it may be missing, hold a boolean, or hold a    *)
(* value of another type.                                                  *)
KeyStates == {"missing", "true", "false", "mismatch"}
SettingsInputs ==
    {[present |-> FALSE, editable |-> "missing", mathjax |-> "missing"]}
    \cup {[present |-> TRUE, editable |-> e, mathjax |-> m] :
            e \in KeyStates, m \in {"missing", "true", "mismatch"}}

HasMismatch(s) == s.present /\ "mismatch" \in {s.editable, s.mathjax}

(* Config::get_deserialized::<HtmlConfig>("output.html"). *)
get_deserialized(s) ==
    IF HasMismatch(s) THEN Err(<<"ConfigError">>)
    ELSE Ok([HtmlConfigDefault EXCEPT
                !.mathjax_support = (s.mathjax = "true"),
                !.playpen = [PlaypenDefault EXCEPT !.editable = (s.editable = "true")]])

unwrap_or_default(r) == IF r.kind = "Ok" THEN r.val ELSE HtmlConfigDefault

----------------------------------------------------------------------------
(* create_toc_info *)
TocEntry(item) ==
    IF IsChapter(item)
    THEN JObj([name |-> JStr(item.name),
               section |-> IF IsSome(item.number)
                           THEN JStr(SectionString(Unwrap(item.number)))
                           ELSE JNull,
               path |-> JStr(PathString(item.path))])
    ELSE JObj([spacer |-> JStr("_spacer_")])

RECURSIVE PushEntries(_, _)
PushEntries(chapters, items) ==
    IF items = <<>> THEN chapters
    ELSE PushEntries(Append(chapters, TocEntry(Head(items))), Tail(items))

create_toc_info_no_spacers(b) ==
    JArr(PushEntries(<<>>, SelectSeq(iter(b), IsChapter)))

create_toc_info(b) == JArr(PushEntries(<<>>, iter(b)))

----------------------------------------------------------------------------
(* construct_global_context *)
EditorKeys ==
    {"editor_js", "ace_js", "mode_rust_js", "theme_dawn_js", "theme_tomorrow_night_js"}

extra_info ==
    [editor_js |-> JStr("editor.js"), ace_js |-> JStr("ace.js"),
     mode_rust_js |-> JStr("mode-rust.js"), theme_dawn_js |-> JStr("theme-dawn.js"),
     theme_tomorrow_night_js |-> JStr("theme-tomorrow_night.js")]

BaseContext(config, html_config, b) ==
    [language |-> JStr("en"),
     book_title |-> JOptStr(config.book.title),
     description |-> JOptStr(config.book.description),
     livereload |-> JOptStr(html_config.livereload_url),
     authors |-> JArr(config.book.authors),
     google_analytics |-> JOptStr(html_config.google_analytics),
     favicon |-> JStr("favicon.ico"),
     mathjax_support |-> JBool(html_config.mathjax_support),
     chapters |-> create_toc_info(b),
     playpens_editable |-> JBool(html_config.playpen.editable)]

construct_global_context_null_assets(config, html_config, b) ==
    Extend(BaseContext(config, html_config, b),
           IF html_config.playpen.editable THEN extra_info
           ELSE [k \in EditorKeys |-> JNull])

construct_global_context(config, html_config, b) ==
    IF html_config.playpen.editable
    THEN Extend(BaseContext(config, html_config, b), extra_info)
    ELSE BaseContext(config, html_config, b)

----------------------------------------------------------------------------
(* load_handlebars_engine *)
Bytes == {"template", "not_utf8", "bad_syntax"}
Themes == [index : Bytes, header : Bytes]

from_utf8(bytes) ==
    IF bytes = "not_utf8" THEN Err(<<"FromUtf8Error">>) ELSE Ok(bytes)

register_template_string(name, text) ==
    IF text = "bad_syntax" THEN Err(<<"TemplateError">>) ELSE Ok(name)

Engine(cfg_) ==
    [templates |-> {"index", "header"},
     helpers |-> {"toc", "previous", "next"},
     no_section_label |-> cfg_.no_section_label]

load_handlebars_engine_index_only(assets, cfg_) ==
    IF from_utf8(assets.index).kind = "Err" THEN from_utf8(assets.index)
    ELSE IF register_template_string("index", assets.index).kind = "Err"
    THEN register_template_string("index", assets.index)
    ELSE Ok(Engine(cfg_))

load_handlebars_engine(assets, cfg_) ==
    IF from_utf8(assets.index).kind = "Err" THEN from_utf8(assets.index)
    ELSE IF register_template_string("index", assets.index).kind = "Err"
    THEN register_template_string("index", assets.index)
    ELSE IF from_utf8(assets.header).kind = "Err" THEN from_utf8(assets.header)
    ELSE IF register_template_string("header", assets.header).kind = "Err"
    THEN register_template_string("header", assets.header)
    ELSE Ok(Engine(cfg_))

----------------------------------------------------------------------------
(* HtmlRenderer::render_chapter.  The chapter's own keys are built first    *)
(* and a clone of the global context is then extended into them; the       *)
(* function ends in unimplemented!(), so every call unwinds.               *)
ChapterKeys == {"path", "content", "chapter_title", "title", "path_to_root"}

ChapterTitle(ch, title) ==
    IF IsSome(title) THEN Unwrap(title) \o " - " \o ch.name ELSE ch.name

ChapterObject(ch, title) ==
    [path |-> JStr(PathString(ch.path)),
     content |-> JStr(ch.content),
     chapter_title |-> JStr(ch.name),
     title |-> JStr(ChapterTitle(ch, title)),
     path_to_root |-> JStr(path_to_root(ch.path))]

render_chapter_extends_shared(ch, g, title) ==
    [result |-> Panic("not yet implemented"),
     chapter_ctx |-> Extend(ChapterObject(ch, title), g),
     global_ctx |-> Extend(g, ChapterObject(ch, title))]

render_chapter(ch, g, title) ==
    [result |-> Panic("not yet implemented"),
     chapter_ctx |-> Extend(ChapterObject(ch, title), g),
     global_ctx |-> g]

----------------------------------------------------------------------------
(* write_all.  o names the filesystem call that fails, if any. *)
FsOutcomes == {"ok", "create_dir_all", "File::create", "write_all"}

PutFile(fs, location, data) ==
    {f \in fs : f.path # location} \cup {[path |-> location, data |-> data]}

write_all(fs, ds, location, data, o) ==
    LET parent == Parent(location)
        made == IF IsSome(parent) THEN ds \cup Ancestors(Unwrap(parent)) ELSE ds
    IN IF IsSome(parent) /\ o = "create_dir_all"
       THEN [result |-> Err(<<"Unable to create parent directories", "io::Error">>),
             files |-> fs, dirs |-> ds, created |-> <<>>]
       ELSE IF o = "File::create"
       THEN [result |-> Err(<<"Couldn't open the file for writing", "io::Error">>),
             files |-> fs, dirs |-> made, created |-> <<>>]
       ELSE IF o = "write_all"
       THEN [result |-> Err(<<"Error encountered writing data", "io::Error">>),
             files |-> PutFile(fs, location, ""), dirs |-> made,
             created |-> <<location>>]
       ELSE [result |-> Ok(<<>>),
             files |-> PutFile(fs, location, data), dirs |-> made,
             created |-> <<location>>]

----------------------------------------------------------------------------
(* HtmlRenderer::render, statement by statement. *)
Titles == {None, Some("T")}

Config == [book |-> [title |-> book_title, description |-> None, authors |-> <<>>]]

Init ==
    /\ pc = "Init"
    /\ book \in Books
    /\ settings \in SettingsInputs
    /\ book_title \in Titles
    /\ theme = None
    /\ cfg = None
    /\ global_ctx = None
    /\ hbs = None
    /\ idx = 1
    /\ chapter_ctx = None
    /\ rendered = <<>>
    /\ files = {}
    /\ dirs = {<<>>}
    /\ writes = <<>>
    /\ error = <<>>

(* let cfg = ctx.config.get_deserialized("output.html").unwrap_or_default() *)
LoadConfig ==
    /\ pc = "Init"
    /\ cfg' = Some(unwrap_or_default(get_deserialized(settings)))
    /\ pc' = "ConfigLoaded"
    /\ UNCHANGED <<book, settings, book_title, theme, global_ctx, hbs, idx,
                   chapter_ctx, rendered, files, dirs, writes, error>>

(* let global_ctx = construct_global_context(&ctx.config, &cfg, &ctx.book) *)
BuildContext ==
    /\ pc = "ConfigLoaded"
    /\ global_ctx' = Some(construct_global_context(Config, Unwrap(cfg), book))
    /\ pc' = "ContextBuilt"
    /\ UNCHANGED <<book, settings, book_title, theme, cfg, hbs, idx,
                   chapter_ctx, rendered, files, dirs, writes, error>>

(* let static_assets = Theme::new(theme_dir);                              *)
(* let hbs = load_handlebars_engine(&static_assets, &cfg)?;                *)
LoadEngine ==
    /\ pc = "ContextBuilt"
    /\ \E assets \in Themes :
         LET r == load_handlebars_engine(assets, Unwrap(cfg))
         IN /\ theme' = Some(assets)
            /\ IF r.kind = "Ok"
               THEN /\ hbs' = Some(r.val)
                    /\ pc' = "EngineLoaded"
                    /\ error' = error
               ELSE /\ hbs' = hbs
                    /\ pc' = "Failed"
                    /\ error' = r.err
    /\ UNCHANGED <<book, settings, book_title, cfg, global_ctx, idx,
                   chapter_ctx, rendered, files, dirs, writes>>

InRenderChapters == pc \in {"EngineLoaded", "RenderingChapter"}

(* render_chapters: an item of book.iter() that is no chapter is passed over. *)
SkipSeparator ==
    /\ InRenderChapters
    /\ idx <= Len(iter(book))
    /\ ~IsChapter(iter(book)[idx])
    /\ idx' = idx + 1
    /\ pc' = "RenderingChapter"
    /\ UNCHANGED <<book, settings, book_title, theme, cfg, global_ctx, hbs,
                   chapter_ctx, rendered, files, dirs, writes, error>>

(* render_chapters: one iteration of the loop for a chapter. *)
RenderChapter ==
    /\ InRenderChapters
    /\ idx <= Len(iter(book))
    /\ IsChapter(iter(book)[idx])
    /\ \E o \in FsOutcomes :
         LET ch == iter(book)[idx]
             r == render_chapter(ch, Unwrap(global_ctx), book_title)
             content == chain_err(r.result, "Unable to render \"" \o ch.name \o "\"")
             output_file == Join(Destination, ch.path)
             w == write_all(files, dirs, output_file, content.val, o)
             written == chain_err(w.result,
                                  "Writing chapter content to \""
                                      \o PathString(output_file) \o "\" failed")
         IN /\ chapter_ctx' = Some(r.chapter_ctx)
            /\ global_ctx' = Some(r.global_ctx)
            /\ rendered' = Append(rendered, ch.name)
            /\ CASE content.kind = "Panic" ->
                      /\ pc' = "Panicked"
                      /\ UNCHANGED <<idx, files, dirs, writes, error>>
                 [] content.kind = "Err" ->
                      /\ pc' = "Failed"
                      /\ error' = content.err
                      /\ UNCHANGED <<idx, files, dirs, writes>>
                 [] content.kind = "Ok" ->
                      /\ files' = w.files
                      /\ dirs' = w.dirs
                      /\ writes' = writes \o w.created
                      /\ IF written.kind = "Ok"
                         THEN /\ pc' = "RenderingChapter"
                              /\ idx' = idx + 1
                              /\ error' = error
                         ELSE /\ pc' = "Failed"
                              /\ idx' = idx
                              /\ error' = written.err
    /\ UNCHANGED <<book, settings, book_title, theme, cfg, hbs>>

(* render_chapters returns Ok(()) and render() goes on to its closing       *)
(* unimplemented!().                                                        *)
Finish ==
    /\ InRenderChapters
    /\ idx > Len(iter(book))
    /\ pc' = "Panicked"
    /\ UNCHANGED <<book, settings, book_title, theme, cfg, global_ctx, hbs, idx,
                   chapter_ctx, rendered, files, dirs, writes, error>>

Next == LoadConfig \/ BuildContext \/ LoadEngine \/ SkipSeparator \/ RenderChapter \/ Finish

Spec == Init /\ [][Next]_vars

----------------------------------------------------------------------------
(* render_chapter called on its own, with a global context of any shape:   *)
(* the one construct_global_context builds, extended by up to MaxKeys      *)
(* further entries.                                                        *)
ExtraKeys == ChapterKeys \cup {"theme_data"}

ExtraObjects ==
    UNION {[K -> {JStr("global")}] :
             K \in {S \in SUBSET ExtraKeys : Cardinality(S) <= MaxKeys}}

ChapterInit ==
    /\ pc = "render_chapter"
    /\ book \in Books
    /\ settings \in {s \in SettingsInputs : ~s.present}
    /\ book_title \in Titles
    /\ theme = None
    /\ cfg = Some(HtmlConfigDefault)
    /\ \E extra \in ExtraObjects :
         global_ctx = Some(Extend(construct_global_context(Config, HtmlConfigDefault, book),
                                  extra))
    /\ hbs = None
    /\ idx = 1
    /\ chapter_ctx = None
    /\ rendered = <<>>
    /\ files = {}
    /\ dirs = {<<>>}
    /\ writes = <<>>
    /\ error = <<>>

CallRenderChapter ==
    /\ pc = "render_chapter"
    /\ \E i \in 1..Len(iter(book)) :
         /\ IsChapter(iter(book)[i])
         /\ LET r == render_chapter(iter(book)[i], Unwrap(global_ctx), book_title)
            IN /\ idx' = i
               /\ chapter_ctx' = Some(r.chapter_ctx)
               /\ global_ctx' = Some(r.global_ctx)
               /\ rendered' = Append(rendered, iter(book)[i].name)
               /\ pc' = "Panicked"
    /\ UNCHANGED <<book, settings, book_title, theme, cfg, hbs, files, dirs,
                   writes, error>>

ChapterNext == CallRenderChapter

SpecChapter == ChapterInit /\ [][ChapterNext]_vars

----------------------------------------------------------------------------
(* Vocabulary of the properties. *)
Stopped == pc \in {"Done", "Failed", "Panicked"}

Chapters(b) == SelectSeq(iter(b), IsChapter)

RECURSIVE PreOrder(_)
PreOrder(items) ==
    IF items = <<>> THEN <<>>
    ELSE (IF IsChapter(Head(items))
          THEN <<Head(items)>> \o PreOrder(Head(items).sub_items)
          ELSE <<Head(items)>>) \o PreOrder(Tail(items))

SeqToSet(s) == {s[i] : i \in 1..Len(s)}

IsPrefix(s, t) == Len(s) <= Len(t) /\ s = SubSeq(t, 1, Len(s))

LoopPassedEveryItem == IsSome(hbs) /\ idx > Len(iter(book))

----------------------------------------------------------------------------
(* C1: a render that stopped with the engine loaded and without any        *)
(* chapter's render or write returning an error holds exactly one output   *)
(* file per chapter of the book, at <destination>/<chapter.path>, and no   *)
(* file at all for a book of separators only.                              *)
C1_OneFilePerChapter ==
    (Stopped /\ IsSome(hbs) /\ error = <<>>) =>
        /\ {f.path : f \in files} =
              {Join(Destination, ch.path) : ch \in SeqToSet(Chapters(book))}
        /\ Cardinality(files) = Len(Chapters(book))

(* C2: the chapters entry of the global context is the pre-order           *)
(* depth-first flattening of the book: one entry per BookItem, a chapter's *)
(* entry right before those of its sub_items, a separator as the spacer    *)
(* sentinel at its own position.                                           *)
C2_TocIsPreOrderFlattening ==
    IsSome(global_ctx) =>
        LET toc == Unwrap(global_ctx).chapters
            want == PreOrder(book)
        IN /\ toc.t = "arr"
           /\ Len(toc.a) = Len(want)
           /\ \A i \in 1..Len(want) :
                IF IsChapter(want[i])
                THEN /\ DOMAIN toc.a[i].o = {"name", "section", "path"}
                     /\ toc.a[i].o.name = JStr(want[i].name)
                     /\ toc.a[i].o.path = JStr(PathString(want[i].path))
                ELSE toc.a[i].o = [spacer |-> JStr("_spacer_")]

(* The book of tests::create_the_toc_summary and the summary it expects. *)
C2_Witness ==
    /\ IsSome(global_ctx)
    /\ book = <<Chapter("a", <<>>, <<Chapter("b", <<"a">>, <<>>)>>),
                Separator,
                Chapter("c", <<>>, <<>>)>>
    /\ Unwrap(global_ctx).chapters =
         JArr(<<JObj([name |-> JStr("a"), section |-> JStr("1."), path |-> JStr("a.md")]),
                JObj([name |-> JStr("b"), section |-> JStr("1.1."), path |-> JStr("a/b.md")]),
                JObj([spacer |-> JStr("_spacer_")]),
                JObj([name |-> JStr("c"), section |-> JNull, path |-> JStr("c.md")])>>)

(* C3: a render whose engine loaded and whose loop over the book passed    *)
(* every item (every chapter rendered and written) ends in Done, without   *)
(* an error.                                                               *)
C3_SuccessfulRenderEndsDone ==
    (LoopPassedEveryItem /\ ~InRenderChapters) => (pc = "Done" /\ error = <<>>)

(* C4: a render that stopped at a chapter of the book (the chapter's       *)
(* render or write did not succeed) has failed with an error that carries  *)
(* the chapter's name or the path of its output file.                      *)
C4_FailedChapterIsReported ==
    (Stopped /\ IsSome(hbs) /\ idx <= Len(iter(book))) =>
        LET ch == iter(book)[idx]
        IN /\ pc = "Failed"
           /\ error # <<>>
           /\ Head(error) \in
                {"Unable to render \"" \o ch.name \o "\"",
                 "Writing chapter content to \""
                     \o PathString(Join(Destination, ch.path)) \o "\" failed"}
           /\ Len(rendered) = Len(SelectSeq(SubSeq(iter(book), 1, idx), IsChapter))

(* C5: with a key of the wrong type under output.html the render fails     *)
(* with a ConfigError instead of going on; without one, the configuration  *)
(* loads and missing keys take their defaults.                             *)
C5_TypeMismatchIsConfigError ==
    /\ HasMismatch(settings) =>
          (pc = "Init" \/ (pc = "Failed" /\ error = <<"ConfigError">>))
    /\ (~HasMismatch(settings) /\ IsSome(cfg)) =>
          /\ pc # "Failed" \/ IsSome(theme)
          /\ Unwrap(cfg).playpen.editable = (settings.editable = "true")
          /\ Unwrap(cfg).playpen.editor = <<"ace">>
          /\ Unwrap(cfg).mathjax_support = (settings.mathjax = "true")

C7_EditorKeysAllOrNone ==
    IsSome(global_ctx) =>
        LET g == Unwrap(global_ctx)
            editable == Unwrap(cfg).playpen.editable
        IN /\ g.playpens_editable = JBool(editable)
           /\ DOMAIN g \cap EditorKeys \in {{}, EditorKeys}
           /\ ~editable => DOMAIN g \cap EditorKeys = {}
           /\ editable =>
                /\ EditorKeys \subseteq DOMAIN g
                /\ g.editor_js = JStr("editor.js")
                /\ g.ace_js = JStr("ace.js")
                /\ g.mode_rust_js = JStr("mode-rust.js")
                /\ g.theme_dawn_js = JStr("theme-dawn.js")
                /\ g.theme_tomorrow_night_js = JStr("theme-tomorrow_night.js")

C7_Witness ==
    /\ IsSome(global_ctx)
    /\ settings.editable = "true"
    /\ Unwrap(cfg).playpen.editable
    /\ EditorKeys \subseteq DOMAIN Unwrap(global_ctx)

(* C8: when the index template or the header partial is not UTF-8 or not a *)
(* valid template, the render has failed with that error, holds no engine, *)
(* has rendered no chapter and has written no file.                        *)
C8_EngineLoadFailureIsFatal ==
    (IsSome(theme) /\ Unwrap(theme) # [index |-> "template", header |-> "template"]) =>
        /\ pc = "Failed"
        /\ error \in {<<"FromUtf8Error">>, <<"TemplateError">>}
        /\ hbs = None
        /\ rendered = <<>>
        /\ chapter_ctx = None
        /\ files = {}
        /\ writes = <<>>

C8_Witness ==
    /\ pc = "Failed"
    /\ theme = Some([index |-> "template", header |-> "bad_syntax"])
    /\ error = <<"TemplateError">>
    /\ Chapters(book) # <<>>

(* C9: once built, the global context and the book never change, and the   *)
(* context of a rendered chapter agrees with that global context on every  *)
(* key of it.                                                              *)
C9_GlobalContextReadOnly ==
    /\ [][IsSome(global_ctx) => (global_ctx' = global_ctx /\ book' = book)]_vars
    /\ [](IsSome(chapter_ctx) =>
            \A k \in DOMAIN Unwrap(global_ctx) :
                Unwrap(chapter_ctx)[k] = Unwrap(global_ctx)[k])

C9_Witness ==
    /\ rendered # <<>>
    /\ IsSome(chapter_ctx)
    /\ global_ctx = Some(construct_global_context(Config, Unwrap(cfg), book))
    /\ DOMAIN Unwrap(chapter_ctx) = DOMAIN Unwrap(global_ctx) \cup ChapterKeys

(* C10: chapters are rendered in book order with separators passed over,   *)
(* each chapter's file is created before the next chapter is rendered, so  *)
(* that a render stopped without an error has created the files of its     *)
(* chapters in book order, each below an existing parent directory.        *)
C10_WritesFollowBookOrder ==
    LET names == [i \in 1..Len(Chapters(book)) |-> Chapters(book)[i].name]
        paths == [i \in 1..Len(Chapters(book)) |->
                     Join(Destination, Chapters(book)[i].path)]
    IN /\ IsPrefix(rendered, names)
       /\ IsPrefix(writes, paths)
       /\ Len(rendered) <= Len(writes) + 1
       /\ \A i \in 1..Len(writes) : Unwrap(Parent(writes[i])) \in dirs
       /\ (Stopped /\ IsSome(hbs) /\ error = <<>>) => writes = paths

====
